---- MODULE Spec2Model ----
(***************************************************************************)
(* Model of the gemsfun SDK: the bonding-curve pricing helpers             *)
(* (calculateTokensForSol, calculateSolForTokens) and the PumpClient       *)
(* methods that turn a quote into the numeric fields of a buy or a sell    *)
(* instruction.                                                            *)
(*                                                                         *)
(* Amounts are bn.js integers: signed, unbounded, with a division that     *)
(* truncates toward zero.  The model keeps the arithmetic and scales the   *)
(* magnitudes down.                                                        *)
(***************************************************************************)
EXTENDS Integers, Sequences, FiniteSets, TLC

\* ------------------------------------------------------------------ bounds

\* Largest reserveSol / reserveToken of a bonding curve in the pricing runs.
MaxReserveSol == 4
MaxReserveToken == 5
\* Spend amounts handed to calculateTokensForSol range over -MaxSolAmount..MaxSolAmount.
MaxSolAmount == 5
\* Token amounts handed to calculateSolForTokens range over -1..MaxTokenAmount.
MaxTokenAmount == 6
\* Largest value of each field of the market-cap record.
MaxSupply == 1
\* Largest reserve of a bonding curve, and largest amount a caller passes, in
\* the client runs.
MaxClientReserve == 2
MaxClientAmount == 2
\* A spend large enough for a 5% tolerance to amount to a whole unit.
BigSpend == 20

\* ------------------------------------------------------------ constants

PERCENTAGE_DENOMINATOR == 10000
DEFAULT_SLIPPAGE == 50

\* Fee rates (basis points) the Global account may hold.
FeeRates == {0, 100, 5000, 10000}

\* The two helpers modules of the repository that export the calculation
\* functions: "part_003" validates and wraps its failures, "helpers" does not.
UtilsModules == {"part_003", "helpers"}

\* ---------------------------------------------------------------- bn.js

Abs(a) == IF a < 0 THEN -a ELSE a

\* BN.div: integer division truncating toward zero (b # 0).
BNdiv(a, b) ==
    IF (a < 0) = (b < 0)
        THEN Abs(a) \div Abs(b)
        ELSE -(Abs(a) \div Abs(b))

\* BN.min(left, right)
BNmin(left, right) == IF left < right THEN left ELSE right

\* A thrown Error is its message, kept as the sequence of its ": "-separated
\* parts, outermost wrapper first.
Throw(msg) == [ok |-> FALSE, error |-> <<msg>>]

\* catch (error) { throw new Error(`${prefix}: ${error.message}`) }
Rethrow(prefix, r) == IF r.ok THEN r ELSE [ok |-> FALSE, error |-> <<prefix>> \o r.error]

\* The message the failure started from.
Cause(r) == r.error[Len(r.error)]

\* ------------------------------------------------- calculation helpers

\* feeAmount = amount.mul(new BN(feePercent)).div(new BN(PERCENTAGE_DENOMINATOR))
feeAmount(amount, feePercent) == BNdiv(amount * feePercent, PERCENTAGE_DENOMINATOR)

\* A sign slip in the carve-out: the liquidity allocation is added back.
tokenLeft_liquidityAdded(bondingCurve, marketCap) ==
    bondingCurve.reserveToken
        - (marketCap.defaultTokenReserves - marketCap.defaultTotalSupply)
        + marketCap.defaultTokenLiquidity

\* tokenLeft = reserveToken - (defaultTokenReserves - defaultTotalSupply) - defaultTokenLiquidity
tokenLeft(bondingCurve, marketCap) ==
    bondingCurve.reserveToken
        - (marketCap.defaultTokenReserves - marketCap.defaultTotalSupply)
        - marketCap.defaultTokenLiquidity

\* newSolReserve = reserveSol + solAfterFee
buyNewSolReserve(solAmount, bondingCurve, feePercent) ==
    bondingCurve.reserveSol + (solAmount - feeAmount(solAmount, feePercent))

\* The new token reserve rounded up instead of down.
rawTokenAmount_roundedUp(solAmount, bondingCurve, feePercent) ==
    LET k == bondingCurve.reserveSol * bondingCurve.reserveToken
        newSolReserve == buyNewSolReserve(solAmount, bondingCurve, feePercent)
        newTokenReserve == BNdiv(k + newSolReserve - 1, newSolReserve)
    IN  bondingCurve.reserveToken - newTokenReserve

\* tokenAmount = reserveToken - k.div(newSolReserve), before the clamp to tokenLeft
rawTokenAmount(solAmount, bondingCurve, feePercent) ==
    LET k == bondingCurve.reserveSol * bondingCurve.reserveToken
        newSolReserve == buyNewSolReserve(solAmount, bondingCurve, feePercent)
        newTokenReserve == BNdiv(k, newSolReserve)
    IN  bondingCurve.reserveToken - newTokenReserve

\* calculateTokensForSol of the validating helpers module.
calculateTokensForSol(solAmount, bondingCurve, marketCap, feePercent) ==
    LET fee == feeAmount(solAmount, feePercent)
        solAfterFee == solAmount - fee
        newSolReserve == buyNewSolReserve(solAmount, bondingCurve, feePercent)
        tokenAmount == rawTokenAmount(solAmount, bondingCurve, feePercent)
        finalTokenAmount == BNmin(tokenAmount, tokenLeft(bondingCurve, marketCap))
        body ==
            IF bondingCurve.completed
                THEN Throw("Bonding curve is completed, cannot buy more tokens")
            ELSE IF newSolReserve = 0
                THEN Throw("Invalid calculation: division by zero")
            ELSE IF finalTokenAmount <= 0
                THEN Throw("No tokens available for purchase")
            ELSE [ok |-> TRUE,
                  tokenAmount |-> finalTokenAmount,
                  solNeeded |-> solAmount,
                  fee |-> fee,
                  solAfterFee |-> solAfterFee]
    IN  Rethrow("Token calculation failed", body)

\* calculateTokensForSol of src/utils/helpers.ts: no checks, no try/catch; the
\* only failure is bn.js refusing to divide by zero.
helpers_calculateTokensForSol(solAmount, bondingCurve, marketCap, feePercent) ==
    LET fee == feeAmount(solAmount, feePercent)
        newSolReserve == buyNewSolReserve(solAmount, bondingCurve, feePercent)
        tokenAmount == rawTokenAmount(solAmount, bondingCurve, feePercent)
        finalTokenAmount == BNmin(tokenAmount, tokenLeft(bondingCurve, marketCap))
    IN  IF newSolReserve = 0
            THEN Throw("Assertion failed")
            ELSE [ok |-> TRUE,
                  tokenAmount |-> finalTokenAmount,
                  solNeeded |-> solAmount,
                  fee |-> fee]

\* The new SOL reserve rounded up instead of down.
rawSolAmount_roundedUp(tokenAmount, bondingCurve) ==
    LET k == bondingCurve.reserveSol * bondingCurve.reserveToken
        newTokenReserve == bondingCurve.reserveToken + tokenAmount
        newSolReserve == BNdiv(k + newTokenReserve - 1, newTokenReserve)
    IN  bondingCurve.reserveSol - newSolReserve

\* solAmount = reserveSol - k.div(reserveToken + tokenAmount)
rawSolAmount(tokenAmount, bondingCurve) ==
    LET k == bondingCurve.reserveSol * bondingCurve.reserveToken
        newTokenReserve == bondingCurve.reserveToken + tokenAmount
        newSolReserve == BNdiv(k, newTokenReserve)
    IN  bondingCurve.reserveSol - newSolReserve

\* The check of tokenAmount against reserveToken left out.
calculateSolForTokens_anyAmount(tokenAmount, bondingCurve, feePercent) ==
    LET newTokenReserve == bondingCurve.reserveToken + tokenAmount
        solAmount == rawSolAmount(tokenAmount, bondingCurve)
        fee == feeAmount(solAmount, feePercent)
        solAfterFee == solAmount - fee
        body ==
            IF bondingCurve.completed
                THEN Throw("Bonding curve is completed, cannot sell tokens")
            ELSE IF tokenAmount <= 0
                THEN Throw("Token amount must be greater than 0")
            ELSE IF newTokenReserve = 0
                THEN Throw("Invalid calculation: division by zero")
            ELSE IF solAfterFee <= 0
                THEN Throw("SOL output after fee must be greater than 0")
            ELSE [ok |-> TRUE,
                  solAmount |-> solAmount,
                  fee |-> fee,
                  solAfterFee |-> solAfterFee]
    IN  Rethrow("SOL calculation failed", body)

\* The result check letting proceeds of exactly 0 through.
calculateSolForTokens_zeroAllowed(tokenAmount, bondingCurve, feePercent) ==
    LET newTokenReserve == bondingCurve.reserveToken + tokenAmount
        solAmount == rawSolAmount(tokenAmount, bondingCurve)
        fee == feeAmount(solAmount, feePercent)
        solAfterFee == solAmount - fee
        body ==
            IF bondingCurve.completed
                THEN Throw("Bonding curve is completed, cannot sell tokens")
            ELSE IF tokenAmount <= 0
                THEN Throw("Token amount must be greater than 0")
            ELSE IF tokenAmount > bondingCurve.reserveToken
                THEN Throw("Insufficient tokens in bonding curve")
            ELSE IF newTokenReserve = 0
                THEN Throw("Invalid calculation: division by zero")
            ELSE IF solAfterFee < 0
                THEN Throw("SOL output after fee must be greater than 0")
            ELSE [ok |-> TRUE,
                  solAmount |-> solAmount,
                  fee |-> fee,
                  solAfterFee |-> solAfterFee]
    IN  Rethrow("SOL calculation failed", body)

\* calculateSolForTokens of the validating helpers module.
calculateSolForTokens(tokenAmount, bondingCurve, feePercent) ==
    LET newTokenReserve == bondingCurve.reserveToken + tokenAmount
        solAmount == rawSolAmount(tokenAmount, bondingCurve)
        fee == feeAmount(solAmount, feePercent)
        solAfterFee == solAmount - fee
        body ==
            IF bondingCurve.completed
                THEN Throw("Bonding curve is completed, cannot sell tokens")
            ELSE IF tokenAmount <= 0
                THEN Throw("Token amount must be greater than 0")
            ELSE IF tokenAmount > bondingCurve.reserveToken
                THEN Throw("Insufficient tokens in bonding curve")
            ELSE IF newTokenReserve = 0
                THEN Throw("Invalid calculation: division by zero")
            ELSE IF solAfterFee <= 0
                THEN Throw("SOL output after fee must be greater than 0")
            ELSE [ok |-> TRUE,
                  solAmount |-> solAmount,
                  fee |-> fee,
                  solAfterFee |-> solAfterFee]
    IN  Rethrow("SOL calculation failed", body)

\* calculateSolForTokens of src/utils/helpers.ts.
helpers_calculateSolForTokens(tokenAmount, bondingCurve, feePercent) ==
    LET newTokenReserve == bondingCurve.reserveToken + tokenAmount
        solAmount == rawSolAmount(tokenAmount, bondingCurve)
        fee == feeAmount(solAmount, feePercent)
    IN  IF newTokenReserve = 0
            THEN Throw("Assertion failed")
            ELSE [ok |-> TRUE,
                  solAmount |-> solAmount,
                  fee |-> fee,
                  solAfterFee |-> solAmount - fee]

\* The function a caller reaches under the name calculateTokensForSol, by the
\* helpers module it is linked against.
utils_calculateTokensForSol(u, solAmount, bondingCurve, marketCap, feePercent) ==
    IF u = "part_003"
        THEN calculateTokensForSol(solAmount, bondingCurve, marketCap, feePercent)
        ELSE helpers_calculateTokensForSol(solAmount, bondingCurve, marketCap, feePercent)

utils_calculateSolForTokens(u, tokenAmount, bondingCurve, feePercent) ==
    IF u = "part_003"
        THEN calculateSolForTokens(tokenAmount, bondingCurve, feePercent)
        ELSE helpers_calculateSolForTokens(tokenAmount, bondingCurve, feePercent)

\* ---------------------------------------------------------------- client

\* An optional parameter is the empty set when the caller omits it and {v}
\* when the caller passes v.
Omitted == {}
Given(v) == {v}
ValueOf(opt) == CHOOSE v \in opt : TRUE

\* JavaScript truthiness of an optional number: undefined and 0 are falsy.
Truthy(opt) == opt # Omitted /\ opt # Given(0)

\* opt || dflt
OrDefault(opt, dflt) == IF Truthy(opt) THEN ValueOf(opt) ELSE dflt

\* logs || []
OrEmpty(opt) == IF opt = Omitted THEN <<>> ELSE ValueOf(opt)

\* BN.toString(): the decimal digits, most significant first, after the sign.
DigitChars == <<"0", "1", "2", "3", "4", "5", "6", "7", "8", "9">>

RECURSIVE Digits(_)
Digits(n) ==
    IF n < 10
        THEN <<DigitChars[n + 1]>>
        ELSE Digits(n \div 10) \o <<DigitChars[(n % 10) + 1]>>

BNtoString(n) == IF n < 0 THEN <<"-">> \o Digits(-n) ELSE Digits(n)

DigitValue(c) == (CHOOSE i \in 1..10 : DigitChars[i] = c) - 1

RECURSIVE ParseDigits(_)
ParseDigits(str) ==
    IF Len(str) = 0
        THEN 0
        ELSE 10 * ParseDigits(SubSeq(str, 1, Len(str) - 1)) + DigitValue(str[Len(str)])

\* new BN(str): parse base 10
BNfromString(str) ==
    IF Len(str) > 0 /\ str[1] = "-"
        THEN -ParseDigits(Tail(str))
        ELSE ParseDigits(str)

\* new BN(account.field.toString())
Reparse(n) == BNfromString(BNtoString(n))

\* A request to the RPC node that throws.
RpcError == Throw("RPC request failed")

\* A JavaScript string is the sequence of its characters.
WhiteSpace == {" ", "\t", "\n"}

\* String.prototype.trim(): the string without its leading and trailing white space.
RECURSIVE trimStart(_)
trimStart(str) ==
    IF Len(str) > 0 /\ str[1] \in WhiteSpace THEN trimStart(Tail(str)) ELSE str

RECURSIVE trimEnd(_)
trimEnd(str) ==
    IF Len(str) > 0 /\ str[Len(str)] \in WhiteSpace
        THEN trimEnd(SubSeq(str, 1, Len(str) - 1))
        ELSE str

trim(str) == trimEnd(trimStart(str))

\* !str || str.trim().length === 0
Blank(str) == Len(str) = 0 \/ Len(trim(str)) = 0

\* The checks of name, symbol and uri without the trim.
validateCreateCoinParams_untrimmed(params) ==
    IF Len(params.name) = 0
        THEN <<"Coin name is required">>
    ELSE IF Len(params.symbol) = 0
        THEN <<"Coin symbol is required">>
    ELSE IF Len(params.uri) = 0
        THEN <<"Metadata URI is required">>
    ELSE IF params.marketCapIndex < 1 \/ params.marketCapIndex > 3
        THEN <<"Market cap index must be 1, 2, or 3">>
    ELSE <<>>

\* validateCreateCoinParams: the message of the first failed check, or <<>>.
validateCreateCoinParams(params) ==
    IF Blank(params.name)
        THEN <<"Coin name is required">>
    ELSE IF Blank(params.symbol)
        THEN <<"Coin symbol is required">>
    ELSE IF Blank(params.uri)
        THEN <<"Metadata URI is required">>
    ELSE IF params.marketCapIndex < 1 \/ params.marketCapIndex > 3
        THEN <<"Market cap index must be 1, 2, or 3">>
    ELSE <<>>

\* The check of maxSolCost left out.
validateBuyCoinParams_noCostCheck(params) ==
    IF params.tokenAmount <= 0
        THEN <<"Token amount must be greater than 0">>
    ELSE IF params.marketCapIndex < 1 \/ params.marketCapIndex > 3
        THEN <<"Market cap index must be 1, 2, or 3">>
    ELSE <<>>

\* validateBuyCoinParams: the message of the first failed check, or <<>>.
validateBuyCoinParams(params) ==
    IF params.tokenAmount <= 0
        THEN <<"Token amount must be greater than 0">>
    ELSE IF params.maxSolCost <= 0
        THEN <<"Max SOL cost must be greater than 0">>
    ELSE IF params.marketCapIndex < 1 \/ params.marketCapIndex > 3
        THEN <<"Market cap index must be 1, 2, or 3">>
    ELSE <<>>

validateSellCoinParams(params) ==
    IF params.tokenAmount <= 0
        THEN <<"Token amount must be greater than 0">>
    ELSE IF params.marketCapIndex < 1 \/ params.marketCapIndex > 3
        THEN <<"Market cap index must be 1, 2, or 3">>
    ELSE <<>>

validateBuyCoinWithSolParams(params) ==
    IF params.solAmount <= 0
        THEN <<"SOL amount must be greater than 0">>
    ELSE IF params.marketCapIndex < 1 \/ params.marketCapIndex > 3
        THEN <<"Market cap index must be 1, 2, or 3">>
    ELSE IF Truthy(params.slippage)
            /\ (ValueOf(params.slippage) < 0 \/ ValueOf(params.slippage) > 10000)
        THEN <<"Slippage must be between 0 and 10000 basis points">>
    ELSE <<>>

\* What a client method hands back: a transaction or a thrown Error, and the
\* RPC requests it issued on the way, in order.
Returned(tx, rpcs) == [ok |-> TRUE, tx |-> tx, rpcs |-> rpcs]
Thrown(error, rpcs) == [ok |-> FALSE, error |-> error, rpcs |-> rpcs]

\* The buy bound rounded up.
buyMaxSolCost_roundedUp(solAmount, slippage) ==
    BNdiv(solAmount * (10000 + slippage) + 9999, 10000)

\* maxSolCost = solAmount.mul(new BN(10000 + slippage)).div(new BN(10000))
buyMaxSolCost(solAmount, slippage) == BNdiv(solAmount * (10000 + slippage), 10000)

\* minSolOutput = solAfterFee.mul(new BN(10000 - slippage)).div(new BN(10000))
sellMinSolOutput(solAfterFee, slippage) == BNdiv(solAfterFee * (10000 - slippage), 10000)

\* The default taken from DEFAULT_SLIPPAGE of constants.ts instead of the literal.
effectiveSlippage_fromConstants(params) == OrDefault(params.slippage, DEFAULT_SLIPPAGE)

\* const slippage = params.slippage || 500
effectiveSlippage(params) == OrDefault(params.slippage, 500)

\* The public key of the wallet the client was constructed with, and the mint
\* of the coin the calls are about.
Wallet == "wallet"
Mint == "mint"

\* findCreatorRevenuePDA(mint, creator): the program address derived from the
\* seeds "creator_revenue", mint, creator.
findCreatorRevenuePDA(mint, creator) == <<"creator_revenue", mint, creator>>

\* JSON.stringify of a string: the string between double quotes.
JSONstringify(str) == <<"\"", str, "\"">>

\* The catch block rethrowing instead of reporting.
simulateTransaction_rethrows(outcome) ==
    IF outcome.kind = "throws"
        THEN Thrown(<<outcome.message>>, <<"simulateTransaction">>)
    ELSE IF outcome.err # Omitted
        THEN [ok |-> TRUE,
              success |-> FALSE,
              error |-> Given(JSONstringify(ValueOf(outcome.err))),
              logs |-> Given(OrEmpty(outcome.logs))]
    ELSE [ok |-> TRUE,
          success |-> TRUE,
          error |-> Omitted,
          logs |-> Given(OrEmpty(outcome.logs))]

\* PumpClient.simulateTransaction.  outcome is what connection.simulateTransaction
\* does: it throws, or it returns a value with err (null or an error) and logs
\* (null or the log lines).
simulateTransaction(outcome) ==
    IF outcome.kind = "throws"
        THEN [ok |-> TRUE,
              success |-> FALSE,
              error |-> Given(<<outcome.message>>),
              logs |-> Omitted]
    ELSE IF outcome.err # Omitted
        THEN [ok |-> TRUE,
              success |-> FALSE,
              error |-> Given(JSONstringify(ValueOf(outcome.err))),
              logs |-> Given(OrEmpty(outcome.logs))]
    ELSE [ok |-> TRUE,
          success |-> TRUE,
          error |-> Omitted,
          logs |-> Given(OrEmpty(outcome.logs))]

\* The revenue pool instruction added only when the caller asks for it.
createCoin_poolOnRequest(params, fail) ==
    LET invalid == validateCreateCoinParams(params)
        createIx == [name |-> "create",
                     marketCapIndex |-> params.marketCapIndex,
                     coinName |-> params.name,
                     symbol |-> params.symbol,
                     uri |-> params.uri]
        poolIx == IF params.createCreatorRevenuePool = Given(TRUE)
                    THEN <<[name |-> "createCreatorRevenuePool",
                            user |-> Wallet,
                            mint |-> Mint,
                            creatorRevenuePool |->
                                findCreatorRevenuePDA(Mint, Wallet)]>>
                    ELSE <<>>
    IN  IF invalid # <<>>
            THEN Thrown(invalid, <<>>)
        ELSE IF "getLatestBlockhash" \in fail
            THEN Thrown(<<"Failed to create coin">> \o RpcError.error,
                        <<"getLatestBlockhash">>)
        ELSE Returned([instructions |-> <<createIx>> \o poolIx],
                      <<"getLatestBlockhash">>)

\* PumpClient.createCoin.  fail is the set of RPC requests that throw.  The
\* addresses are derived locally; the only request is getLatestBlockhash.
createCoin(params, fail) ==
    LET invalid == validateCreateCoinParams(params)
        createIx == [name |-> "create",
                     marketCapIndex |-> params.marketCapIndex,
                     coinName |-> params.name,
                     symbol |-> params.symbol,
                     uri |-> params.uri]
        poolIx == IF params.createCreatorRevenuePool # Given(FALSE)
                    THEN <<[name |-> "createCreatorRevenuePool",
                            user |-> Wallet,
                            mint |-> Mint,
                            creatorRevenuePool |->
                                findCreatorRevenuePDA(Mint, Wallet)]>>
                    ELSE <<>>
    IN  IF invalid # <<>>
            THEN Thrown(invalid, <<>>)
        ELSE IF "getLatestBlockhash" \in fail
            THEN Thrown(<<"Failed to create coin">> \o RpcError.error,
                        <<"getLatestBlockhash">>)
        ELSE Returned([instructions |-> <<createIx>> \o poolIx],
                      <<"getLatestBlockhash">>)

\* The revenue pool instruction pushed before the token account instruction.
buyCoin_poolFirst(params, fail) ==
    LET invalid == validateBuyCoinParams(params)
        ataIx == IF "getAccount" \in fail
                    THEN <<[name |-> "createAssociatedTokenAccount"]>>
                    ELSE <<>>
        poolIx == IF "creatorRevenuePool.fetch" \in fail
                    THEN <<[name |-> "createCreatorRevenuePool",
                            user |-> Wallet,
                            mint |-> Mint,
                            creatorRevenuePool |->
                                findCreatorRevenuePDA(Mint, params.creator)]>>
                    ELSE <<>>
        buyIx == [name |-> "buy",
                  marketCapIndex |-> params.marketCapIndex,
                  amount |-> params.tokenAmount,
                  maxSolCost |-> params.maxSolCost]
        upToPool == <<"global.fetch", "getAccount", "creatorRevenuePool.fetch">>
    IN  IF invalid # <<>>
            THEN Thrown(invalid, <<>>)
        ELSE IF "global.fetch" \in fail
            THEN Thrown(<<"Failed to buy coin">> \o RpcError.error, <<"global.fetch">>)
        ELSE IF "getLatestBlockhash" \in fail
            THEN Thrown(<<"Failed to buy coin">> \o RpcError.error,
                        upToPool \o <<"getLatestBlockhash">>)
        ELSE Returned([instructions |-> poolIx \o ataIx \o <<buyIx>>],
                      upToPool \o <<"getLatestBlockhash">>)

\* The two numeric arguments of the buy instruction exchanged.
buyCoin_costAsAmount(params, fail) ==
    LET invalid == validateBuyCoinParams(params)
        ataIx == IF "getAccount" \in fail
                    THEN <<[name |-> "createAssociatedTokenAccount"]>>
                    ELSE <<>>
        poolIx == IF "creatorRevenuePool.fetch" \in fail
                    THEN <<[name |-> "createCreatorRevenuePool",
                            user |-> Wallet,
                            mint |-> Mint,
                            creatorRevenuePool |->
                                findCreatorRevenuePDA(Mint, params.creator)]>>
                    ELSE <<>>
        buyIx == [name |-> "buy",
                  marketCapIndex |-> params.marketCapIndex,
                  amount |-> params.maxSolCost,
                  maxSolCost |-> params.tokenAmount]
        upToPool == <<"global.fetch", "getAccount", "creatorRevenuePool.fetch">>
    IN  IF invalid # <<>>
            THEN Thrown(invalid, <<>>)
        ELSE IF "global.fetch" \in fail
            THEN Thrown(<<"Failed to buy coin">> \o RpcError.error, <<"global.fetch">>)
        ELSE IF "getLatestBlockhash" \in fail
            THEN Thrown(<<"Failed to buy coin">> \o RpcError.error,
                        upToPool \o <<"getLatestBlockhash">>)
        ELSE Returned([instructions |-> ataIx \o poolIx \o <<buyIx>>],
                      upToPool \o <<"getLatestBlockhash">>)

\* PumpClient.buyCoin.  fail is the set of RPC requests that throw.
buyCoin(params, fail) ==
    LET invalid == validateBuyCoinParams(params)
        ataIx == IF "getAccount" \in fail
                    THEN <<[name |-> "createAssociatedTokenAccount"]>>
                    ELSE <<>>
        poolIx == IF "creatorRevenuePool.fetch" \in fail
                    THEN <<[name |-> "createCreatorRevenuePool",
                            user |-> Wallet,
                            mint |-> Mint,
                            creatorRevenuePool |->
                                findCreatorRevenuePDA(Mint, params.creator)]>>
                    ELSE <<>>
        buyIx == [name |-> "buy",
                  marketCapIndex |-> params.marketCapIndex,
                  amount |-> params.tokenAmount,
                  maxSolCost |-> params.maxSolCost]
        upToPool == <<"global.fetch", "getAccount", "creatorRevenuePool.fetch">>
    IN  IF invalid # <<>>
            THEN Thrown(invalid, <<>>)
        ELSE IF "global.fetch" \in fail
            THEN Thrown(<<"Failed to buy coin">> \o RpcError.error, <<"global.fetch">>)
        ELSE IF "getLatestBlockhash" \in fail
            THEN Thrown(<<"Failed to buy coin">> \o RpcError.error,
                        upToPool \o <<"getLatestBlockhash">>)
        ELSE Returned([instructions |-> ataIx \o poolIx \o <<buyIx>>],
                      upToPool \o <<"getLatestBlockhash">>)

\* PumpClient.buyCoinWithSol.  The call of buyCoin is returned without await, so
\* a rejection of buyCoin passes the catch block unwrapped.
buyCoinWithSol(u, params, fail, g, mc, bc) ==
    LET invalid == validateBuyCoinWithSolParams(params)
        wrap(e) == <<"Failed to buy coin with SOL">> \o e
        quote == utils_calculateTokensForSol(
                    u,
                    params.solAmount,
                    [reserveSol |-> Reparse(bc.reserveSol),
                     reserveToken |-> Reparse(bc.reserveToken),
                     completed |-> bc.completed],
                    [defaultTotalSupply |-> Reparse(mc.defaultTotalSupply),
                     defaultTokenReserves |-> Reparse(mc.defaultTokenReserves),
                     defaultTokenLiquidity |-> Reparse(mc.defaultTokenLiquidity)],
                    g.fee)
        slippage == effectiveSlippage(params)
        maxSolCost == buyMaxSolCost(params.solAmount, slippage)
        fetched == <<"global.fetch", "marketCap.fetch", "bondingCurve.fetch">>
        inner == buyCoin([marketCapIndex |-> params.marketCapIndex,
                          tokenAmount |-> quote.tokenAmount,
                          maxSolCost |-> maxSolCost,
                          creator |-> params.creator],
                         fail)
    IN  IF invalid # <<>>
            THEN Thrown(invalid, <<>>)
        ELSE IF "global.fetch" \in fail
            THEN Thrown(wrap(RpcError.error), SubSeq(fetched, 1, 1))
        ELSE IF "marketCap.fetch" \in fail
            THEN Thrown(wrap(RpcError.error), SubSeq(fetched, 1, 2))
        ELSE IF "bondingCurve.fetch" \in fail
            THEN Thrown(wrap(RpcError.error), fetched)
        ELSE IF ~quote.ok
            THEN Thrown(wrap(quote.error), fetched)
        ELSE [inner EXCEPT !.rpcs = fetched \o @]

\* PumpClient.sellCoin
sellCoin(u, params, fail, g, bc) ==
    LET invalid == validateSellCoinParams(params)
        wrap(e) == <<"Failed to sell coin">> \o e
        quote == utils_calculateSolForTokens(
                    u,
                    params.tokenAmount,
                    [reserveSol |-> Reparse(bc.reserveSol),
                     reserveToken |-> Reparse(bc.reserveToken),
                     completed |-> bc.completed],
                    g.fee)
        slippage == effectiveSlippage(params)
        minSolOutput == sellMinSolOutput(quote.solAfterFee, slippage)
        sellIx == [name |-> "sell",
                   marketCapIndex |-> params.marketCapIndex,
                   amount |-> params.tokenAmount,
                   minSolOutput |-> minSolOutput]
        fetched == <<"global.fetch", "bondingCurve.fetch">>
    IN  IF invalid # <<>>
            THEN Thrown(invalid, <<>>)
        ELSE IF "global.fetch" \in fail
            THEN Thrown(wrap(RpcError.error), SubSeq(fetched, 1, 1))
        ELSE IF "bondingCurve.fetch" \in fail
            THEN Thrown(wrap(RpcError.error), fetched)
        ELSE IF ~quote.ok
            THEN Thrown(wrap(quote.error), fetched)
        ELSE IF "getLatestBlockhash" \in fail
            THEN Thrown(wrap(RpcError.error), fetched \o <<"getLatestBlockhash">>)
        ELSE Returned([instructions |-> <<sellIx>>], fetched \o <<"getLatestBlockhash">>)

\* The two fetches every *Simple method starts with, outside any try block:
\* the bonding curve, then the market-cap account it references.
simpleFetched(fail) ==
    IF "bondingCurve.fetch" \in fail
        THEN Thrown(RpcError.error, <<"bondingCurve.fetch">>)
    ELSE IF "marketCap.fetch" \in fail
        THEN Thrown(RpcError.error, <<"bondingCurve.fetch", "marketCap.fetch">>)
    ELSE Returned(<<>>, <<"bondingCurve.fetch", "marketCap.fetch">>)

\* The index taken as 1 instead of the one the market-cap account stores.
buyCoinSimple_defaultIndex(params, fail, mc) ==
    LET first == simpleFetched(fail)
        rest == buyCoin([marketCapIndex |-> 1,
                         tokenAmount |-> params.tokenAmount,
                         maxSolCost |-> params.maxSolCost,
                         creator |-> params.creator],
                        fail)
    IN  IF ~first.ok THEN first ELSE [rest EXCEPT !.rpcs = first.rpcs \o @]

\* PumpClient.buyCoinSimple
buyCoinSimple(params, fail, mc) ==
    LET first == simpleFetched(fail)
        rest == buyCoin([marketCapIndex |-> mc.index,
                         tokenAmount |-> params.tokenAmount,
                         maxSolCost |-> params.maxSolCost,
                         creator |-> params.creator],
                        fail)
    IN  IF ~first.ok THEN first ELSE [rest EXCEPT !.rpcs = first.rpcs \o @]

\* PumpClient.buyCoinWithSolSimple
buyCoinWithSolSimple(u, params, fail, g, mc, bc) ==
    LET first == simpleFetched(fail)
        rest == buyCoinWithSol(u,
                               [marketCapIndex |-> mc.index,
                                solAmount |-> params.solAmount,
                                slippage |-> params.slippage,
                                creator |-> params.creator],
                               fail, g, mc, bc)
    IN  IF ~first.ok THEN first ELSE [rest EXCEPT !.rpcs = first.rpcs \o @]

\* PumpClient.sellCoinSimple
sellCoinSimple(u, params, fail, g, mc, bc) ==
    LET first == simpleFetched(fail)
        rest == sellCoin(u,
                         [marketCapIndex |-> mc.index,
                          tokenAmount |-> params.tokenAmount,
                          slippage |-> params.slippage],
                         fail, g, bc)
    IN  IF ~first.ok THEN first ELSE [rest EXCEPT !.rpcs = first.rpcs \o @]

\* ------------------------------------------------------------------ state

VARIABLES
    utils,          \* the helpers module behind "../utils"
    global,         \* the Global account: [fee]
    marketCap,      \* the MarketCap account of the curve: [index, default*]
    bondingCurve,   \* the BondingCurve account: [reserveSol, reserveToken, completed]
    ret             \* the last call: its name, its arguments and what it returned or threw

vars == <<utils, global, marketCap, bondingCurve, ret>>
ledger == <<utils, global, marketCap, bondingCurve>>

NoCall == [op |-> "none"]

\* ---------------------------------------------------------- pricing runs

SolAmounts == (-MaxSolAmount)..MaxSolAmount
TokenAmounts == (-1)..MaxTokenAmount

InitPricing ==
    /\ utils \in UtilsModules
    /\ global \in [fee : FeeRates]
    /\ marketCap \in [index : {1},
                      defaultTotalSupply : 0..MaxSupply,
                      defaultTokenReserves : 0..MaxSupply,
                      defaultTokenLiquidity : 0..MaxSupply]
    /\ bondingCurve \in [reserveSol : 0..MaxReserveSol,
                         reserveToken : 0..MaxReserveToken,
                         completed : BOOLEAN]
    /\ ret = NoCall

\* A direct call calculateTokensForSol(solAmount, bondingCurve, marketCap, fee).
CallCalculateTokensForSol ==
    \E solAmount \in SolAmounts :
        /\ ret' = [op |-> "calculateTokensForSol",
                   solAmount |-> solAmount,
                   res |-> utils_calculateTokensForSol(
                               utils, solAmount, bondingCurve, marketCap, global.fee)]
        /\ UNCHANGED ledger

\* A direct call calculateSolForTokens(tokenAmount, bondingCurve, fee).
CallCalculateSolForTokens ==
    \E tokenAmount \in TokenAmounts :
        /\ ret' = [op |-> "calculateSolForTokens",
                   tokenAmount |-> tokenAmount,
                   res |-> utils_calculateSolForTokens(
                               utils, tokenAmount, bondingCurve, global.fee)]
        /\ UNCHANGED ledger

NextPricing == CallCalculateTokensForSol \/ CallCalculateSolForTokens

SpecPricing == InitPricing /\ [][NextPricing]_vars

\* ------------------------------------------------------- logged pricing runs

\* A caller that quotes repeatedly against the curve and limits objects it
\* holds, as the calculation tests do with mockBondingCurve and mockMarketCap.
\* ret keeps, next to the last call, the first call of the run and whether a
\* different call was made after it.
InitQuoteLog ==
    /\ utils \in UtilsModules
    /\ global \in [fee : {0, 5000}]
    /\ marketCap \in [index : {1},
                      defaultTotalSupply : {0},
                      defaultTokenReserves : {0},
                      defaultTokenLiquidity : {0}]
    /\ bondingCurve \in [reserveSol : 0..MaxClientReserve,
                         reserveToken : 0..MaxClientReserve,
                         completed : BOOLEAN]
    /\ ret = NoCall

\* The log entry after call, given the entry before it.
Logged(call) ==
    IF ret = NoCall
        THEN [last |-> call, first |-> call, between |-> FALSE]
        ELSE [last |-> call, first |-> ret.first,
              between |-> ret.between \/ call # ret.first]

\* The quote applied to the curve object it was handed (an in-place
\* reserveSol.iadd(solAfterFee) in place of add).
LoggedCalculateTokensForSol_consumesReserve ==
    \E solAmount \in SolAmounts :
        LET res == utils_calculateTokensForSol(
                        utils, solAmount, bondingCurve, marketCap, global.fee)
        IN  /\ ret' = Logged([op |-> "calculateTokensForSol",
                              solAmount |-> solAmount,
                              res |-> res])
            /\ bondingCurve' =
                  IF res.ok /\ bondingCurve.reserveSol <= MaxReserveSol
                      THEN [bondingCurve EXCEPT
                                !.reserveSol = @ + Abs(solAmount - res.fee)]
                      ELSE bondingCurve
            /\ UNCHANGED <<utils, global, marketCap>>

\* calculateTokensForSol(solAmount, bondingCurve, marketCap, fee), logged.  The
\* function assigns to no field of its arguments: every bn.js operation it uses
\* (mul, div, sub, add, BN.min) returns a new number.
LoggedCalculateTokensForSol ==
    \E solAmount \in SolAmounts :
        /\ ret' = Logged([op |-> "calculateTokensForSol",
                          solAmount |-> solAmount,
                          res |-> utils_calculateTokensForSol(
                                      utils, solAmount, bondingCurve, marketCap,
                                      global.fee)])
        /\ UNCHANGED ledger

\* calculateSolForTokens(tokenAmount, bondingCurve, fee), logged.
LoggedCalculateSolForTokens ==
    \E tokenAmount \in TokenAmounts :
        /\ ret' = Logged([op |-> "calculateSolForTokens",
                          tokenAmount |-> tokenAmount,
                          res |-> utils_calculateSolForTokens(
                                      utils, tokenAmount, bondingCurve, global.fee)])
        /\ UNCHANGED ledger

NextQuoteLog == LoggedCalculateTokensForSol \/ LoggedCalculateSolForTokens

SpecQuoteLog == InitQuoteLog /\ [][NextQuoteLog]_vars

\* ----------------------------------------------------------- client runs

\* RPC requests a client method may issue.
RpcRequests == {"global.fetch", "marketCap.fetch", "bondingCurve.fetch",
                "getAccount", "creatorRevenuePool.fetch", "getLatestBlockhash"}

\* The requests that throw during one call: none, any single one, or the two
\* account lookups of buyCoin together.
RpcFailures == {{}} \cup {{r} : r \in RpcRequests}
                    \cup {{"getAccount", "creatorRevenuePool.fetch"}}

\* A call rejected by its parameter validation issues no request, so no
\* outcome of a request is drawn for it.
FailuresAfter(invalid) == IF invalid = <<>> THEN RpcFailures ELSE {{}}

\* Parameters a caller passes.  BigSpend is a spend for which 5% is a whole unit.
ClientSolAmounts == 0..MaxClientAmount \cup {BigSpend}
ClientTokenAmounts == 0..MaxClientAmount
MarketCapIndexes == {0, 1, 3, 4}
Slippages == {Omitted, Given(-1), Given(0), Given(1), Given(500),
              Given(10000), Given(10001)}

Init ==
    /\ utils \in UtilsModules
    /\ global \in [fee : {0, 5000}]
    /\ marketCap \in [index : {1, 3},
                      defaultTotalSupply : {0},
                      defaultTokenReserves : {0},
                      defaultTokenLiquidity : {0}]
    /\ bondingCurve \in [reserveSol : 0..MaxClientReserve,
                         reserveToken : 0..MaxClientReserve,
                         completed : BOOLEAN]
    /\ ret = NoCall

\* Names, symbols and URIs a caller passes: empty, white space only, padded.
\* The creator a caller names: the wallet itself or another key.
Creators == {Wallet, "creator"}

CoinStrings == {<<>>, <<" ">>, <<" ", "T", " ">>}
OptionalFlags == {Omitted, Given(TRUE), Given(FALSE)}

CreateCoin ==
    \E name \in CoinStrings, symbol \in CoinStrings, uri \in CoinStrings,
       marketCapIndex \in MarketCapIndexes, flag \in OptionalFlags :
        LET params == [marketCapIndex |-> marketCapIndex,
                       name |-> name,
                       symbol |-> symbol,
                       uri |-> uri,
                       createCreatorRevenuePool |-> flag]
        IN  \E fail \in FailuresAfter(validateCreateCoinParams(params)) :
                /\ ret = NoCall
                /\ ret' = [op |-> "createCoin",
                           params |-> params,
                           fail |-> fail,
                           res |-> createCoin(params, fail)]
                /\ UNCHANGED ledger

BuyCoin ==
    \E tokenAmount \in ClientTokenAmounts, maxSolCost \in ClientSolAmounts,
       marketCapIndex \in MarketCapIndexes, creator \in Creators :
        LET params == [marketCapIndex |-> marketCapIndex,
                       tokenAmount |-> tokenAmount,
                       maxSolCost |-> maxSolCost,
                       creator |-> creator]
        IN  \E fail \in FailuresAfter(validateBuyCoinParams(params)) :
                /\ ret = NoCall
                /\ ret' = [op |-> "buyCoin",
                           params |-> params,
                           fail |-> fail,
                           res |-> buyCoin(params, fail)]
                /\ UNCHANGED ledger

BuyCoinSimple ==
    \E tokenAmount \in ClientTokenAmounts, maxSolCost \in ClientSolAmounts,
       creator \in Creators, fail \in RpcFailures :
        LET params == [tokenAmount |-> tokenAmount, maxSolCost |-> maxSolCost,
                       creator |-> creator]
        IN  /\ ret = NoCall
            /\ ret' = [op |-> "buyCoinSimple",
                       params |-> params,
                       fail |-> fail,
                       res |-> buyCoinSimple(params, fail, marketCap)]
            /\ UNCHANGED ledger

BuyCoinWithSol ==
    \E solAmount \in ClientSolAmounts, marketCapIndex \in MarketCapIndexes,
       slippage \in Slippages, creator \in Creators :
        LET params == [marketCapIndex |-> marketCapIndex,
                       solAmount |-> solAmount,
                       slippage |-> slippage,
                       creator |-> creator]
        IN  \E fail \in FailuresAfter(validateBuyCoinWithSolParams(params)) :
                /\ ret = NoCall
                /\ ret' = [op |-> "buyCoinWithSol",
                           params |-> params,
                           fail |-> fail,
                           res |-> buyCoinWithSol(utils, params, fail,
                                                  global, marketCap, bondingCurve)]
                /\ UNCHANGED ledger

SellCoin ==
    \E tokenAmount \in ClientTokenAmounts, marketCapIndex \in MarketCapIndexes,
       slippage \in Slippages :
        LET params == [marketCapIndex |-> marketCapIndex,
                       tokenAmount |-> tokenAmount,
                       slippage |-> slippage]
        IN  \E fail \in FailuresAfter(validateSellCoinParams(params)) :
                /\ ret = NoCall
                /\ ret' = [op |-> "sellCoin",
                           params |-> params,
                           fail |-> fail,
                           res |-> sellCoin(utils, params, fail, global, bondingCurve)]
                /\ UNCHANGED ledger

BuyCoinWithSolSimple ==
    \E solAmount \in ClientSolAmounts, slippage \in Slippages,
       creator \in Creators, fail \in RpcFailures :
        LET params == [solAmount |-> solAmount, slippage |-> slippage,
                       creator |-> creator]
        IN  /\ ret = NoCall
            /\ ret' = [op |-> "buyCoinWithSolSimple",
                       params |-> params,
                       fail |-> fail,
                       res |-> buyCoinWithSolSimple(utils, params, fail,
                                                    global, marketCap, bondingCurve)]
            /\ UNCHANGED ledger

SellCoinSimple ==
    \E tokenAmount \in ClientTokenAmounts, slippage \in Slippages, fail \in RpcFailures :
        LET params == [tokenAmount |-> tokenAmount, slippage |-> slippage]
        IN  /\ ret = NoCall
            /\ ret' = [op |-> "sellCoinSimple",
                       params |-> params,
                       fail |-> fail,
                       res |-> sellCoinSimple(utils, params, fail,
                                              global, marketCap, bondingCurve)]
            /\ UNCHANGED ledger

\* What connection.simulateTransaction may do.
SimulationOutcomes ==
    {[kind |-> "throws", message |-> "RPC request failed"]}
        \cup [kind : {"returns"},
              err : {Omitted, Given("AccountNotFound")},
              logs : {Omitted, Given(<<>>), Given(<<"Program log: Instruction: Buy">>)}]

SimulateTransaction ==
    \E outcome \in SimulationOutcomes :
        /\ ret = NoCall
        /\ ret' = [op |-> "simulateTransaction",
                   outcome |-> outcome,
                   res |-> simulateTransaction(outcome)]
        /\ UNCHANGED ledger

\* The caller has awaited the promise of its call and goes on to the next one;
\* the client keeps nothing of the call.
Settle ==
    /\ ret # NoCall
    /\ ret' = NoCall
    /\ UNCHANGED ledger

Next ==
    \/ CreateCoin
    \/ BuyCoin
    \/ BuyCoinSimple
    \/ SimulateTransaction
    \/ BuyCoinWithSol
    \/ SellCoin
    \/ BuyCoinWithSolSimple
    \/ SellCoinSimple
    \/ Settle

Spec == Init /\ [][Next]_vars

\* ------------------------------------------------------------- properties

\* Floor division for either sign of the divisor.
FloorDiv(a, b) == IF b > 0 THEN a \div b ELSE (-a) \div (-b)

\* The buy or sell instruction of a built transaction: its last instruction.
TradeIx(tx) == tx.instructions[Len(tx.instructions)]

BuyQuoted == ret.op = "calculateTokensForSol" /\ ret.res.ok
K == bondingCurve.reserveSol * bondingCurve.reserveToken

\* C1: calculateTokensForSol called with a completed bonding curve always
\* fails with "Bonding curve is completed ...", whatever the other arguments.
\* Stated for positive spends, where nothing else can fail first.
C1_CompletedCurveFails ==
    (ret.op = "calculateTokensForSol" /\ bondingCurve.completed /\ ret.solAmount > 0)
        => /\ ~ret.res.ok
           /\ Cause(ret.res) = "Bonding curve is completed, cannot buy more tokens"

\* The slippage a caller passed lies in [0, 10000].
SlippageInRange(opt) == opt # Omitted /\ ValueOf(opt) >= 0 /\ ValueOf(opt) <= 10000

\* The after-fee proceeds sellCoin quoted for the call in ret.
SellQuote == utils_calculateSolForTokens(utils, ret.params.tokenAmount,
                                         bondingCurve, global.fee)

\* C2: for every slippage in [0, 10000] the maxSolCost of a buy built by
\* buyCoinWithSol is >= solAmount, the minSolOutput of a sell built by sellCoin
\* is <= the quoted solAfterFee, and with slippage = 0 both equal that amount.
C2_SlippageBounds ==
    /\ (ret.op = "buyCoinWithSol" /\ ret.res.ok /\ SlippageInRange(ret.params.slippage))
        => /\ TradeIx(ret.res.tx).maxSolCost >= ret.params.solAmount
           /\ ret.params.slippage = Given(0)
                => TradeIx(ret.res.tx).maxSolCost = ret.params.solAmount
    /\ (ret.op = "sellCoin" /\ ret.res.ok /\ SlippageInRange(ret.params.slippage))
        => /\ TradeIx(ret.res.tx).minSolOutput <= SellQuote.solAfterFee
           /\ ret.params.slippage = Given(0)
                => TradeIx(ret.res.tx).minSolOutput = SellQuote.solAfterFee

TakesSlippage == ret.op \in {"buyCoinWithSol", "sellCoin",
                             "buyCoinWithSolSimple", "sellCoinSimple"}

\* C3: buyCoinWithSol, sellCoin and their *Simple variants fail and build no
\* transaction whenever slippage < 0 or slippage > 10000.  (Which error is
\* reported is left open here: another invalid parameter or a failed request
\* may come first.)
C3_OutOfRangeSlippageRejected ==
    (TakesSlippage /\ ret.params.slippage # Omitted
        /\ ~SlippageInRange(ret.params.slippage))
        => ~ret.res.ok

\* The tolerance the method applied to the call in ret.
AppliedSlippage == effectiveSlippage(ret.params)

BuiltBuy == ret.op = "buyCoinWithSol" /\ ret.res.ok
BuiltSell == ret.op = "sellCoin" /\ ret.res.ok

\* C4 as stated: the buy bound is the least integer >= a*(10000+s)/10000 and
\* the sell bound is the greatest integer <= a*(10000-s)/10000.
C4_BuyUpSellDown ==
    /\ (BuiltBuy /\ AppliedSlippage \in 0..10000)
        => TradeIx(ret.res.tx).maxSolCost
             = -FloorDiv(-(ret.params.solAmount * (10000 + AppliedSlippage)), 10000)
    /\ (BuiltSell /\ AppliedSlippage \in 0..10000)
        => TradeIx(ret.res.tx).minSolOutput
             = FloorDiv(SellQuote.solAfterFee * (10000 - AppliedSlippage), 10000)

\* C4 amended: both bounds are rounded down; with s the tolerance the method
\* applies, 0 <= s <= 10000, the buy bound is the greatest integer
\* <= a*(10000+s)/10000 and the sell bound the greatest integer
\* <= a*(10000-s)/10000.
C4_BothRoundedDown ==
    /\ (BuiltBuy /\ AppliedSlippage \in 0..10000)
        => TradeIx(ret.res.tx).maxSolCost
             = FloorDiv(ret.params.solAmount * (10000 + AppliedSlippage), 10000)
    /\ (BuiltSell /\ AppliedSlippage \in 0..10000)
        => TradeIx(ret.res.tx).minSolOutput
             = FloorDiv(SellQuote.solAfterFee * (10000 - AppliedSlippage), 10000)

\* A buy was built whose exact bound a*(10000+s)/10000 is no integer.
C4_Witness ==
    /\ BuiltBuy
    /\ ret.params.slippage = Given(1)
    /\ ret.params.solAmount = 1
    /\ TradeIx(ret.res.tx).maxSolCost = 1

\* C5: with slippage omitted the client applies 500 basis points: buyCoinWithSol
\* passes maxSolCost = floor(solAmount * 10500 / 10000) and sellCoin passes
\* minSolOutput = floor(solAfterFee * 9500 / 10000).
C5_DefaultSlippage ==
    /\ (BuiltBuy /\ ret.params.slippage = Omitted)
        => TradeIx(ret.res.tx).maxSolCost
             = FloorDiv(ret.params.solAmount * 10500, 10000)
    /\ (BuiltSell /\ ret.params.slippage = Omitted)
        => TradeIx(ret.res.tx).minSolOutput
             = FloorDiv(SellQuote.solAfterFee * 9500, 10000)

\* A buy built without a slippage whose bound exceeds the spend.
C5_Witness ==
    /\ BuiltBuy
    /\ ret.params.slippage = Omitted
    /\ TradeIx(ret.res.tx).maxSolCost > ret.params.solAmount

\* The sell quote for the tokens the buy quote in ret returned, against the
\* same curve.
SellBack == utils_calculateSolForTokens(utils, ret.res.tokenAmount,
                                        bondingCurve, global.fee)

\* C6: round trip: if calculateTokensForSol(x) succeeds with tokenAmount t on a
\* curve that is not completed, calculateSolForTokens(t) against the same curve
\* yields solAfterFee < x.  Stated for positive spends.
C6_RoundTripLoses ==
    (BuyQuoted /\ utils = "part_003" /\ ~bondingCurve.completed
        /\ ret.solAmount > 0 /\ SellBack.ok)
        => SellBack.solAfterFee < ret.solAmount

\* The buy quote for another spend against the curve of the call in ret.
OtherBuy(x) == utils_calculateTokensForSol(utils, x, bondingCurve, marketCap, global.fee)

\* C7: buy monotonicity: for a fixed curve, limits and fee rate, if
\* calculateTokensForSol succeeds for x1 < x2 then tokenAmount(x1) <= tokenAmount(x2).
C7_BuyMonotone ==
    (BuyQuoted /\ utils = "part_003")
        => \A x2 \in SolAmounts :
              (ret.solAmount < x2 /\ OtherBuy(x2).ok)
                  => ret.res.tokenAmount <= OtherBuy(x2).tokenAmount

\* The reserves recomputed from the amounts a buy quote returned.
NewReserveQuote == bondingCurve.reserveSol + (ret.res.solNeeded - ret.res.fee)
NewReserveBase == bondingCurve.reserveToken - ret.res.tokenAmount

\* The token output of the curve formula for the call in ret, before the clamp.
RawOut == rawTokenAmount(ret.solAmount, bondingCurve, global.fee)

\* available = reserveToken - (defaultTokenReserves - defaultTotalSupply) - defaultTokenLiquidity
Available ==
    bondingCurve.reserveToken
        - (marketCap.defaultTokenReserves - marketCap.defaultTotalSupply)
        - marketCap.defaultTokenLiquidity

C9_Clamping ==
    BuyQuoted
        => /\ RawOut > Available => ret.res.tokenAmount = Available
           /\ RawOut <= Available => ret.res.tokenAmount = RawOut

\* A successful quote for a positive spend that was clamped.
C9_Witness ==
    /\ BuyQuoted
    /\ utils = "part_003"
    /\ ret.solAmount > 0
    /\ RawOut > Available
    /\ ret.res.tokenAmount = Available

\* C10: for every successful buy quote, fee = floor(solAmount * feeBps / 10000),
\* the net amount entering the curve is solAmount - fee, and the unclamped
\* token output is reserveToken - floor(k / (reserveSol + solAmount - fee)).
C10_BuyFormula ==
    (BuyQuoted /\ utils = "part_003")
        => LET fee == FloorDiv(ret.solAmount * global.fee, 10000)
               netIn == ret.solAmount - fee
           IN  /\ ret.res.fee = fee
               /\ ret.res.solAfterFee = netIn
               /\ bondingCurve.reserveSol + netIn # 0
               /\ RawOut = bondingCurve.reserveToken
                             - FloorDiv(K, bondingCurve.reserveSol + netIn)

SellQuoted == ret.op = "calculateSolForTokens" /\ ret.res.ok

C12_SellRejections ==
    ret.op = "calculateSolForTokens"
        => /\ bondingCurve.completed
                => /\ ~ret.res.ok
                   /\ Cause(ret.res) = "Bonding curve is completed, cannot sell tokens"
           /\ (~bondingCurve.completed /\ ret.tokenAmount <= 0)
                => /\ ~ret.res.ok
                   /\ Cause(ret.res) = "Token amount must be greater than 0"
           /\ (~bondingCurve.completed /\ ret.tokenAmount > 0
                    /\ ret.tokenAmount > bondingCurve.reserveToken)
                => /\ ~ret.res.ok
                   /\ Cause(ret.res) = "Insufficient tokens in bonding curve"

\* C13: on a curve that is not completed, a buy quote for a spend <= 0 fails:
\* calculateTokensForSol called directly returns no quote.  (Which error is
\* reported is left open here.)
C13_NonPositiveSpendFails ==
    (ret.op = "calculateTokensForSol" /\ utils = "part_003"
        /\ ~bondingCurve.completed /\ ret.solAmount <= 0)
        => ~ret.res.ok

\* C14: calculateTokensForSol never returns a tokenAmount <= 0: if
\* min(raw output, available) <= 0 it fails with 'No tokens available for
\* purchase' instead.  Stated for positive spends on a curve that is not completed.
C14_NoLiquidity ==
    (ret.op = "calculateTokensForSol" /\ ~bondingCurve.completed /\ ret.solAmount > 0)
        => /\ ret.res.ok => ret.res.tokenAmount > 0
           /\ (buyNewSolReserve(ret.solAmount, bondingCurve, global.fee) # 0
                    /\ BNmin(RawOut, Available) <= 0)
                => /\ ~ret.res.ok
                   /\ Cause(ret.res) = "No tokens available for purchase"

\* The proceeds of the sell in ret before and after the fee, by the curve formula.
SellRawOut == rawSolAmount(ret.tokenAmount, bondingCurve)
SellNetOut == SellRawOut - feeAmount(SellRawOut, global.fee)

\* An otherwise valid sell: the curve is live and 0 < tokenAmount <= reserveToken.
ValidSell ==
    /\ ret.op = "calculateSolForTokens"
    /\ ~bondingCurve.completed
    /\ ret.tokenAmount > 0
    /\ ret.tokenAmount <= bondingCurve.reserveToken

RepeatsFirstCall ==
    /\ ret # NoCall
    /\ ret.last.op = ret.first.op
    /\ ret.last.op = "calculateTokensForSol" => ret.last.solAmount = ret.first.solAmount
    /\ ret.last.op = "calculateSolForTokens" => ret.last.tokenAmount = ret.first.tokenAmount

BuyQuote == utils_calculateTokensForSol(utils, ret.params.solAmount,
                                        bondingCurve, marketCap, global.fee)

\* The call in ret passed validation and every account fetch before the quote
\* succeeded, and the quote failed.
BuyEngineFailed ==
    /\ ret.op = "buyCoinWithSol"
    /\ validateBuyCoinWithSolParams(ret.params) = <<>>
    /\ ret.fail \cap {"global.fetch", "marketCap.fetch", "bondingCurve.fetch"} = {}
    /\ ~BuyQuote.ok

SellEngineFailed ==
    /\ ret.op = "sellCoin"
    /\ validateSellCoinParams(ret.params) = <<>>
    /\ ret.fail \cap {"global.fetch", "bondingCurve.fetch"} = {}
    /\ ~SellQuote.ok

\* C17: buyCoinWithSol and sellCoin surface every failure of the calculation
\* functions to their caller unchanged: no transaction is returned and the
\* error the caller catches is the error the calculation threw.
C17_EngineFailuresUnchanged ==
    /\ BuyEngineFailed => (~ret.res.ok /\ ret.res.error = BuyQuote.error)
    /\ SellEngineFailed => (~ret.res.ok /\ ret.res.error = SellQuote.error)

IndexedOps == {"createCoin", "buyCoin", "buyCoinWithSol", "sellCoin"}

\* The caller of the call in ret passed a parameter the documentation rules
\* out: an amount <= 0, a market cap index other than 1, 2, 3, a blank name,
\* symbol or URI, or a slippage outside [0, 10000].
InvalidParams ==
    \/ ret.op \in {"buyCoinWithSol", "buyCoinWithSolSimple"} /\ ret.params.solAmount <= 0
    \/ ret.op \in {"sellCoin", "sellCoinSimple"} /\ ret.params.tokenAmount <= 0
    \/ ret.op \in {"buyCoin", "buyCoinSimple"}
            /\ (ret.params.tokenAmount <= 0 \/ ret.params.maxSolCost <= 0)
    \/ ret.op \in IndexedOps /\ ret.params.marketCapIndex \notin 1..3
    \/ ret.op = "createCoin"
            /\ (Blank(ret.params.name) \/ Blank(ret.params.symbol) \/ Blank(ret.params.uri))
    \/ TakesSlippage /\ ret.params.slippage # Omitted
            /\ ~SlippageInRange(ret.params.slippage)

\* C18: every transaction-building method of PumpClient rejects a call with
\* invalid parameters before the client issues any account fetch or other
\* network request.
C18_ValidatedBeforeRequests ==
    (ret # NoCall /\ InvalidParams) => (~ret.res.ok /\ ret.res.rpcs = <<>>)

\* C19: buyCoin returns a transaction only if tokenAmount > 0, maxSolCost > 0
\* and marketCapIndex is 1, 2 or 3; otherwise it rejects with the matching
\* validation error (the first check that fails), not wrapped.
C19_BuyCoinValidation ==
    ret.op = "buyCoin"
        => /\ ret.res.ok
                => /\ ret.params.tokenAmount > 0
                   /\ ret.params.maxSolCost > 0
                   /\ ret.params.marketCapIndex \in 1..3
           /\ ret.params.tokenAmount <= 0
                => /\ ~ret.res.ok
                   /\ ret.res.error = <<"Token amount must be greater than 0">>
           /\ (ret.params.tokenAmount > 0 /\ ret.params.maxSolCost <= 0)
                => /\ ~ret.res.ok
                   /\ ret.res.error = <<"Max SOL cost must be greater than 0">>
           /\ (ret.params.tokenAmount > 0 /\ ret.params.maxSolCost > 0
                    /\ ret.params.marketCapIndex \notin 1..3)
                => /\ ~ret.res.ok
                   /\ ret.res.error = <<"Market cap index must be 1, 2, or 3">>

\* buyCoin rejected a call whose only invalid parameter is maxSolCost.
C19_Witness ==
    /\ ret.op = "buyCoin"
    /\ ret.params.tokenAmount > 0
    /\ ret.params.maxSolCost <= 0
    /\ ret.params.marketCapIndex \in 1..3
    /\ ~ret.res.ok
    /\ ret.res.error = <<"Max SOL cost must be greater than 0">>

\* The string without any white space character.
RECURSIVE NoWhiteSpace(_)
NoWhiteSpace(str) ==
    IF Len(str) = 0 THEN <<>>
    ELSE IF str[1] \in WhiteSpace THEN NoWhiteSpace(Tail(str))
    ELSE <<str[1]>> \o NoWhiteSpace(Tail(str))

\* Nothing is left of the string after trimming white space.
EmptyTrimmed(str) == NoWhiteSpace(str) = <<>>

\* C20: createCoin returns a transaction only if name, symbol and uri are each
\* non-empty after trimming white space and marketCapIndex is 1, 2 or 3;
\* otherwise it rejects with the matching validation error (the first check
\* that fails) and builds nothing.
C20_CreateCoinValidation ==
    ret.op = "createCoin"
        => /\ ret.res.ok
                => /\ ~EmptyTrimmed(ret.params.name)
                   /\ ~EmptyTrimmed(ret.params.symbol)
                   /\ ~EmptyTrimmed(ret.params.uri)
                   /\ ret.params.marketCapIndex \in 1..3
           /\ EmptyTrimmed(ret.params.name)
                => /\ ~ret.res.ok
                   /\ ret.res = Thrown(<<"Coin name is required">>, <<>>)
           /\ (~EmptyTrimmed(ret.params.name) /\ EmptyTrimmed(ret.params.symbol))
                => ret.res = Thrown(<<"Coin symbol is required">>, <<>>)
           /\ (~EmptyTrimmed(ret.params.name) /\ ~EmptyTrimmed(ret.params.symbol)
                    /\ EmptyTrimmed(ret.params.uri))
                => ret.res = Thrown(<<"Metadata URI is required">>, <<>>)
           /\ (~EmptyTrimmed(ret.params.name) /\ ~EmptyTrimmed(ret.params.symbol)
                    /\ ~EmptyTrimmed(ret.params.uri)
                    /\ ret.params.marketCapIndex \notin 1..3)
                => ret.res = Thrown(<<"Market cap index must be 1, 2, or 3">>, <<>>)

\* createCoin rejected a call whose symbol holds white space only.
C20_Witness ==
    /\ ret.op = "createCoin"
    /\ ~EmptyTrimmed(ret.params.name)
    /\ ret.params.symbol = <<" ">>
    /\ ret.res = Thrown(<<"Coin symbol is required">>, <<>>)

BuiltCreate == ret.op = "createCoin" /\ ret.res.ok

\* C21: the transaction built by createCoin contains the create instruction
\* first, followed by a createCreatorRevenuePool instruction unless the caller
\* passed createCreatorRevenuePool = false (omitting the option means true);
\* with false it contains the create instruction only.
C21_CreateCoinInstructions ==
    BuiltCreate
        => LET ixs == ret.res.tx.instructions
           IN  /\ ixs[1].name = "create"
               /\ ret.params.createCreatorRevenuePool = Given(FALSE) => Len(ixs) = 1
               /\ ret.params.createCreatorRevenuePool # Given(FALSE)
                    => /\ Len(ixs) = 2
                       /\ ixs[2].name = "createCreatorRevenuePool"

\* A coin created without the option carries the revenue pool instruction.
C21_Witness ==
    /\ BuiltCreate
    /\ ret.params.createCreatorRevenuePool = Omitted
    /\ Len(ret.res.tx.instructions) = 2

Simulated == ret.op = "simulateTransaction"

\* C22: simulateTransaction never throws: it returns success = true exactly
\* when the simulation completed with no error, success = false with the error
\* text when the simulation reports an error, and success = false with the
\* exception message when the transport call throws.
C22_SimulateNeverThrows ==
    Simulated
        => /\ ret.res.ok
           /\ ret.res.success
                <=> (ret.outcome.kind = "returns" /\ ret.outcome.err = Omitted)
           /\ (ret.outcome.kind = "returns" /\ ret.outcome.err # Omitted)
                => /\ ~ret.res.success
                   /\ ret.res.error = Given(<<"\"", ValueOf(ret.outcome.err), "\"">>)
           /\ ret.outcome.kind = "throws"
                => /\ ~ret.res.success
                   /\ ret.res.error = Given(<<ret.outcome.message>>)

\* The transport call threw and simulateTransaction reported it.
C22_Witness ==
    /\ Simulated
    /\ ret.outcome.kind = "throws"
    /\ ret.res.ok
    /\ ~ret.res.success

\* C23: the two numeric instruction fields are transmitted unchanged: the buy
\* instruction built via buyCoinWithSol carries amount = the tokenAmount
\* returned by calculateTokensForSol and maxSolCost = the computed bound, and
\* the sell instruction built by sellCoin carries amount = the caller's
\* tokenAmount and minSolOutput = the computed bound.
C23_FieldsTransmitted ==
    /\ BuiltBuy
        => /\ TradeIx(ret.res.tx).name = "buy"
           /\ TradeIx(ret.res.tx).amount = BuyQuote.tokenAmount
           /\ TradeIx(ret.res.tx).maxSolCost
                = (ret.params.solAmount * (10000 + AppliedSlippage)) \div 10000
    /\ BuiltSell
        => /\ TradeIx(ret.res.tx).name = "sell"
           /\ TradeIx(ret.res.tx).amount = ret.params.tokenAmount
           /\ TradeIx(ret.res.tx).minSolOutput
                = sellMinSolOutput(SellQuote.solAfterFee, AppliedSlippage)

\* A buy built via buyCoinWithSol whose amount and bound differ.
C23_Witness ==
    /\ BuiltBuy
    /\ TradeIx(ret.res.tx).amount = BuyQuote.tokenAmount
    /\ TradeIx(ret.res.tx).amount # TradeIx(ret.res.tx).maxSolCost

\* What the caller of a client method observes: the transaction or the error.
Observed(r) == IF r.ok THEN [ok |-> TRUE, tx |-> r.tx] ELSE [ok |-> FALSE, error |-> r.error]

\* The parameters of the *Simple call in ret with the stored index added.
WithStoredIndex == [marketCapIndex |-> marketCap.index] @@ ret.params

\* What the low-level counterpart of the *Simple call in ret returns for the
\* same parameters, the stored index and the same outcomes of the requests.
Counterpart ==
    IF ret.op = "buyCoinSimple"
        THEN buyCoin(WithStoredIndex, ret.fail)
    ELSE IF ret.op = "buyCoinWithSolSimple"
        THEN buyCoinWithSol(utils, WithStoredIndex, ret.fail, global, marketCap, bondingCurve)
    ELSE sellCoin(utils, WithStoredIndex, ret.fail, global, bondingCurve)

SimpleCalled == ret.op \in {"buyCoinSimple", "buyCoinWithSolSimple", "sellCoinSimple"}

\* The two fetches a *Simple method starts with both succeeded.
IndexFetched == ret.fail \cap {"bondingCurve.fetch", "marketCap.fetch"} = {}

\* C24 as stated: each *Simple method produces the same result (transaction or
\* failure) as its low-level counterpart called with the same parameters plus
\* the stored market-cap index.
C24_SimpleEquivalent ==
    SimpleCalled => Observed(ret.res) = Observed(Counterpart)

\* C24 amended: when the fetches of the bonding curve and of its market-cap
\* account succeed, each *Simple method produces the same result as its
\* low-level counterpart called with the same parameters plus the stored index;
\* when one of the two fetches fails, the *Simple method rejects with the error
\* of that fetch, not wrapped, and builds nothing.
C24_SimpleEquivalentOnceFetched ==
    /\ (SimpleCalled /\ IndexFetched) => Observed(ret.res) = Observed(Counterpart)
    /\ (SimpleCalled /\ ~IndexFetched)
        => Observed(ret.res) = [ok |-> FALSE, error |-> RpcError.error]

\* A *Simple buy for a curve of tier 3 that built a transaction.
C24_Witness ==
    /\ ret.op = "buyCoinSimple"
    /\ IndexFetched
    /\ marketCap.index = 3
    /\ ret.res.ok
    /\ TradeIx(ret.res.tx).marketCapIndex = 3

\* The failures calculateTokensForSol knows other than an arithmetic overflow.
OtherBuyFailures == {"Bonding curve is completed, cannot buy more tokens",
                     "Invalid calculation: division by zero",
                     "No tokens available for purchase"}

\* The recomputed token reserve of the buy in ret exceeds reserveToken.
Underflows ==
    /\ ret.op = "calculateTokensForSol"
    /\ ~bondingCurve.completed
    /\ buyNewSolReserve(ret.solAmount, bondingCurve, global.fee) # 0
    /\ BNdiv(K, buyNewSolReserve(ret.solAmount, bondingCurve, global.fee))
            > bondingCurve.reserveToken

\* C25: in the buy quote, if the recomputed token reserve is greater than
\* reserveToken, the quote fails with the arithmetic-overflow error: the
\* underflow is never reported as another failure kind nor turned into a
\* returned value.
C25_UnderflowIsOverflowError ==
    (Underflows /\ utils = "part_003")
        => /\ ~ret.res.ok
           /\ Cause(ret.res) \notin OtherBuyFailures

BoughtDirectly == ret.op = "buyCoin" /\ ret.res.ok

\* The positions of the instructions of that name in the transaction of ret.
Positions(name) ==
    {i \in 1..Len(ret.res.tx.instructions) : ret.res.tx.instructions[i].name = name}

\* C26: in every transaction returned by buyCoin the buy instruction is the
\* last instruction and occurs exactly once; it is preceded by a
\* create-associated-token-account instruction iff the lookup of the buyer's
\* token account failed, and then by a createCreatorRevenuePool instruction iff
\* the fetch of the creator revenue pool failed, in that order.
C26_BuyInstructionOrder ==
    BoughtDirectly
        => /\ Positions("buy") = {Len(ret.res.tx.instructions)}
           /\ Positions("createAssociatedTokenAccount")
                = IF "getAccount" \in ret.fail THEN {1} ELSE {}
           /\ Positions("createCreatorRevenuePool")
                = IF "creatorRevenuePool.fetch" \notin ret.fail THEN {}
                  ELSE IF "getAccount" \in ret.fail THEN {2} ELSE {1}
           /\ Len(ret.res.tx.instructions)
                = 1 + Cardinality(ret.fail \cap {"getAccount", "creatorRevenuePool.fetch"})

\* A buy built after both lookups failed.
C26_Witness ==
    /\ BoughtDirectly
    /\ ret.fail = {"getAccount", "creatorRevenuePool.fetch"}
    /\ Len(ret.res.tx.instructions) = 3

\* The createCreatorRevenuePool instructions of the transaction in ret.
PoolInstructions ==
    {ret.res.tx.instructions[i] : i \in Positions("createCreatorRevenuePool")}

Built == ret.op \in {"createCoin", "buyCoin", "buyCoinSimple", "buyCoinWithSol",
                     "buyCoinWithSolSimple", "sellCoin", "sellCoinSimple"}
            /\ ret.res.ok

\* C27: every createCreatorRevenuePool instruction the client emits names a
\* creatorRevenuePool address that is the address derived from (mint, the
\* instruction's user account), also when the buying wallet differs from the
\* token's creator.
C27_RevenuePoolAddress ==
    Built => \A ix \in PoolInstructions :
                ix.creatorRevenuePool = <<"creator_revenue", ix.mint, ix.user>>

\* The call in ret passed buyCoinWithSol's validation, its three fetches and
\* its quote, and so reached the call of buyCoin.
ReachedBuyCoin ==
    /\ ret.op = "buyCoinWithSol"
    /\ validateBuyCoinWithSolParams(ret.params) = <<>>
    /\ ret.fail \cap {"global.fetch", "marketCap.fetch", "bondingCurve.fetch"} = {}
    /\ BuyQuote.ok

BuyCoinValidationErrors == {<<"Token amount must be greater than 0">>,
                            <<"Max SOL cost must be greater than 0">>,
                            <<"Market cap index must be 1, 2, or 3">>}

\* C28: whenever buyCoinWithSol reaches its internal call of buyCoin, the
\* parameters it passes satisfy buyCoin's own validation, so the call never
\* fails in buyCoin's parameter validation.
C28_InnerBuyCoinValid ==
    ReachedBuyCoin => (ret.res.ok \/ ret.res.error \notin BuyCoinValidationErrors)

C30_FeeConservation ==
    /\ (BuyQuoted /\ utils = "part_003")
        => /\ 0 <= ret.res.fee
           /\ ret.res.fee <= ret.solAmount
           /\ ret.res.fee + ret.res.solAfterFee = ret.solAmount
    /\ (SellQuoted /\ utils = "part_003")
        => /\ 0 <= ret.res.fee
           /\ ret.res.fee <= ret.res.solAmount
           /\ ret.res.fee + ret.res.solAfterFee = ret.res.solAmount

====
